---- MODULE Spec2Model ----
(***************************************************************************)
(* Expression evaluator of calculator-mcp (src/src/evaluator): the         *)
(* pipeline eval = tokenize -> shunting_yard -> eval_rpn over BigDecimal.  *)
(*                                                                         *)
(* Characters are one-character strings, an input is a sequence of them.   *)
(* A BigDecimal is the pair (int_val, scale) the bigdecimal crate stores,  *)
(* value = int_val * 10^(-scale).  The model tracks digits only while      *)
(* |int_val| <= MaxMag; a decimal beyond that, and the rounded quotient of *)
(* a non-terminating division, is the untracked decimal Opaque.  A run in  *)
(* which the code has to decide is_zero / is_integer of an untracked       *)
(* decimal ends with the outcome "Untracked".                              *)
(***************************************************************************)
EXTENDS Integers, Sequences, FiniteSets, TLC

VARIABLES input, pc, pos, tokens, idx, stack, output, expect_operand,
          ridx, vstack, result, parked

\* the first eleven are the locals of the call of eval that is running;
\* parked holds the locals of the other calls in progress, if any
vars == <<input, pc, pos, tokens, idx, stack, output, expect_operand,
          ridx, vstack, result, parked>>

(***************************************************************************)
(* Bounds of the model.                                                    *)
(***************************************************************************)
\* digits are tracked for |int_val| <= MaxMag
MaxMag == 1000000
\* a terminating quotient is tracked up to this many added fractional digits
MaxDivDigits == 6
\* powers are multiplied out for |exponent| <= MaxExp
MaxExp == 40

(***************************************************************************)
(* Helpers on integers and sequences.                                      *)
(***************************************************************************)
Abs(x) == IF x < 0 THEN -x ELSE x

Max(a, b) == IF a >= b THEN a ELSE b

RECURSIVE Pow10(_)
Pow10(k) == IF k <= 0 THEN 1 ELSE 10 * Pow10(k - 1)

\* a * b stays within the tracked magnitude (decided without computing a * b)
MulFits(a, b) == a = 0 \/ b = 0 \/ Abs(a) <= MaxMag \div Abs(b)

\* truncated quotient and remainder, as Rust's and BigInt's / and %
TruncDiv(a, b) ==
    IF (a >= 0) = (b >= 0) THEN Abs(a) \div Abs(b) ELSE -(Abs(a) \div Abs(b))

TruncRem(a, b) == a - b * TruncDiv(a, b)

(***************************************************************************)
(* BigDecimal (bigdecimal crate), as used by the evaluator.                *)
(***************************************************************************)
Opaque == [known |-> FALSE, int_val |-> 0, scale |-> 0]

BigDecimal(i, s) ==
    IF Abs(i) <= MaxMag THEN [known |-> TRUE, int_val |-> i, scale |-> s]
    ELSE Opaque

\* mutant: only the zero written without fraction or exponent is zero
is_zero_plain_only(v) == v.int_val = 0 /\ v.scale = 0

\* Zero::is_zero: the digits are zero, whatever the scale (0, 0.0, 0e5)
is_zero(v) == v.int_val = 0

\* mutant: a decimal with fractional digits is never an integer (2.0)
is_integer_scale_only(v) == v.scale <= 0

\* BigDecimal::is_integer: scale <= 0, or the fractional digits are all zero
is_integer(v) ==
    IF v.scale <= 0 THEN TRUE
    ELSE IF v.scale > 9 THEN v.int_val = 0
    ELSE v.int_val % Pow10(v.scale) = 0

\* take_and_scale: the digits of v at a (larger or equal) scale; zero stays zero
CanScale(v, s) ==
    v.int_val = 0 \/ (s - v.scale <= 6 /\ MulFits(v.int_val, Pow10(s - v.scale)))

ScaledInt(v, s) == IF v.int_val = 0 THEN 0 ELSE v.int_val * Pow10(s - v.scale)

\* lhs + rhs
Add(a, b) ==
    IF ~a.known \/ ~b.known THEN Opaque
    ELSE LET s == Max(a.scale, b.scale)
         IN  IF CanScale(a, s) /\ CanScale(b, s)
             THEN BigDecimal(ScaledInt(a, s) + ScaledInt(b, s), s)
             ELSE Opaque

\* lhs - rhs
Sub(a, b) ==
    IF ~a.known \/ ~b.known THEN Opaque
    ELSE LET s == Max(a.scale, b.scale)
         IN  IF CanScale(a, s) /\ CanScale(b, s)
             THEN BigDecimal(ScaledInt(a, s) - ScaledInt(b, s), s)
             ELSE Opaque

\* lhs * rhs
Mul(a, b) ==
    IF ~a.known \/ ~b.known THEN Opaque
    ELSE IF MulFits(a.int_val, b.int_val)
         THEN BigDecimal(a.int_val * b.int_val, a.scale + b.scale)
         ELSE Opaque

\* -value
Neg(v) == IF v.known THEN BigDecimal(-v.int_val, v.scale) ELSE Opaque

\* least k in 0..MaxDivDigits with den | num * 10^k, or -1 (no tracked quotient)
RECURSIVE ExactShift(_, _, _)
ExactShift(num, den, k) ==
    IF k > MaxDivDigits \/ ~MulFits(num, Pow10(k)) THEN -1
    ELSE IF (Abs(num) * Pow10(k)) % Abs(den) = 0 THEN k
    ELSE ExactShift(num, den, k + 1)

\* lhs / rhs for a non-zero rhs (impl_division: digits are produced until the
\* remainder is zero; a quotient with more than the tracked digits is Opaque)
Div(a, b) ==
    IF ~a.known \/ ~b.known \/ b.int_val = 0 THEN Opaque
    ELSE IF a.int_val = 0 THEN a
    ELSE LET k == ExactShift(a.int_val, b.int_val, 0)
         IN  IF k < 0 THEN Opaque
             ELSE BigDecimal(TruncDiv(a.int_val * Pow10(k), b.int_val),
                             a.scale - b.scale + k)

\* lhs % rhs for a non-zero rhs: the digits at the common scale, BigInt %
Rem(a, b) ==
    IF ~a.known \/ ~b.known \/ b.int_val = 0 THEN Opaque
    ELSE LET s == Max(a.scale, b.scale)
         IN  IF CanScale(a, s) /\ CanScale(b, s)
             THEN BigDecimal(TruncRem(ScaledInt(a, s), ScaledInt(b, s)), s)
             ELSE Opaque

\* the product of n copies of v (pow with a positive exponent); the shorter
\* product is bound as the element of a singleton, so that it is computed once
RECURSIVE PowU(_, _)
PowU(v, n) ==
    IF ~v.known THEN Opaque
    ELSE IF n = 0 THEN BigDecimal(1, 0)
    ELSE CHOOSE r \in {Mul(v, p) : p \in {PowU(v, n - 1)}} : TRUE

\* ToPrimitive::to_i64 of an integer-valued decimal succeeds: the value lies in
\* -2^63 .. 2^63 - 1 = 9223372036854775807.  With |int_val| <= MaxMag < 10^9 a
\* value int_val * 10^k fits for k <= 9 and fits for no k >= 19 (unless zero).
I64Lead(k) ==
    CASE k = 10 -> 922337203 [] k = 11 -> 92233720 [] k = 12 -> 9223372
      [] k = 13 -> 922337 [] k = 14 -> 92233 [] k = 15 -> 9223
      [] k = 16 -> 922 [] k = 17 -> 92 [] k = 18 -> 9

to_i64_fits(v) ==
    IF v.int_val = 0 \/ v.scale >= -9 THEN TRUE
    ELSE IF v.scale <= -19 THEN FALSE
    ELSE Abs(v.int_val) <= I64Lead(-v.scale)

\* the i64 that to_i64 returns for an integer-valued decimal within the
\* tracked magnitude; MaxMag + 1 stands for every larger exponent
to_i64(v) ==
    IF v.int_val = 0 THEN 0
    ELSE IF v.scale >= 0 THEN TruncDiv(v.int_val, Pow10(v.scale))
    ELSE IF -v.scale <= 6 /\ MulFits(v.int_val, Pow10(-v.scale))
         THEN v.int_val * Pow10(-v.scale)
    ELSE IF v.int_val > 0 THEN MaxMag + 1 ELSE -(MaxMag + 1)

\* lhs.powi(exponent): 1 for 0, the product for a positive exponent, the
\* power of the inverse for a negative one (the inverse of zero is untracked)
powi(v, e) ==
    IF ~v.known \/ Abs(e) > MaxExp THEN Opaque
    ELSE IF e = 0 THEN BigDecimal(1, 0)
    ELSE IF e > 0 THEN PowU(v, e)
    ELSE IF v.int_val = 0 THEN Opaque
    ELSE CHOOSE r \in {PowU(inverse, -e) : inverse \in {Div(BigDecimal(1, 0), v)}} : TRUE

\* the digits with trailing zeros removed: equal decimals have equal Canon
RECURSIVE Canon(_)
Canon(v) ==
    IF ~v.known THEN v
    ELSE IF v.int_val = 0 THEN [known |-> TRUE, int_val |-> 0, scale |-> 0]
    ELSE IF v.int_val % 10 = 0
         THEN Canon([known |-> TRUE, int_val |-> v.int_val \div 10,
                     scale |-> v.scale - 1])
    ELSE v

\* PartialEq of two tracked decimals: equality of the values
NumEq(a, b) == a.known /\ b.known /\ Canon(a) = Canon(b)

(***************************************************************************)
(* Characters.                                                             *)
(***************************************************************************)
DigitChars == <<"0", "1", "2", "3", "4", "5", "6", "7", "8", "9">>

LowerChars == <<"a", "b", "c", "d", "e", "f", "g", "h", "i", "j", "k", "l", "m",
                "n", "o", "p", "q", "r", "s", "t", "u", "v", "w", "x", "y", "z">>

UpperChars == <<"A", "B", "C", "D", "E", "F", "G", "H", "I", "J", "K", "L", "M",
                "N", "O", "P", "Q", "R", "S", "T", "U", "V", "W", "X", "Y", "Z">>

Range(s) == {s[i] : i \in DOMAIN s}

IndexOf(s, c) == CHOOSE i \in DOMAIN s : s[i] = c

\* char::is_ascii_digit
is_ascii_digit(c) == c \in Range(DigitChars)

DigitVal(c) == IndexOf(DigitChars, c) - 1

\* char::is_ascii_alphabetic
is_ascii_alphabetic(c) == c \in Range(LowerChars) \cup Range(UpperChars)

\* char::is_alphanumeric (of the characters of the model)
is_alphanumeric(c) == is_ascii_alphabetic(c) \/ is_ascii_digit(c)

\* char::is_whitespace
is_whitespace(c) == c \in {" ", "\t", "\n"}

\* char::to_ascii_lowercase
to_ascii_lowercase(c) ==
    IF c \in Range(UpperChars) THEN LowerChars[IndexOf(UpperChars, c)] ELSE c

\* char::eq_ignore_ascii_case(&'e')
is_exp_marker(c) == to_ascii_lowercase(c) = "e"

\* mutant: '$' counts as an operator character
is_op_or_dollar(c) == c \in {"+", "-", "*", "/", "%", "^", "$"}

is_op(c) == c \in {"+", "-", "*", "/", "%", "^"}

is_paren(c) == c \in {"(", ")"}

(***************************************************************************)
(* Operator, Assoc, MathConst, Token.                                      *)
(***************************************************************************)
Operator == {"Add", "Sub", "Mul", "Div", "Mod", "Pow", "UnarySub"}

MathConst == {"Pi", "Tau", "E", "Phi", "C", "H", "G", "R", "Na", "Kb", "Ec"}

\* impl From<char> for Operator; "Panic" is the panic! of the last arm
OperatorFrom(c) ==
    CASE c = "+" -> "Add" [] c = "-" -> "Sub" [] c = "*" -> "Mul"
      [] c = "/" -> "Div" [] c = "%" -> "Mod" [] c = "^" -> "Pow"
      [] OTHER -> "Panic"

operator_precedence(op) ==
    CASE op \in {"Add", "Sub"} -> 1
      [] op \in {"Mul", "Div", "Mod"} -> 2
      [] op = "UnarySub" -> 3
      [] op = "Pow" -> 4

\* mutant: every operator groups left to right
operator_associativity_all_left(op) == "Left"

operator_associativity(op) ==
    IF op \in {"Pow", "UnarySub"} THEN "Right" ELSE "Left"

\* mutant: an operator of equal precedence is never popped
should_pop_operator_strict(stack_op, incoming) ==
    operator_precedence(stack_op) > operator_precedence(incoming)

should_pop_operator(stack_op, incoming) ==
    LET stack_prec == operator_precedence(stack_op)
        incoming_prec == operator_precedence(incoming)
    IN  IF stack_prec > incoming_prec THEN TRUE
        ELSE IF stack_prec = incoming_prec
             THEN operator_associativity(incoming) = "Left"
        ELSE FALSE

\* a Token: the variant in type, its payload in op / value / ident
Token(type, op, value, ident) ==
    [type |-> type, op |-> op, value |-> value, ident |-> ident]

NoValue == [known |-> TRUE, int_val |-> 0, scale |-> 0]

Number(v) == Token("Number", "None", v, "None")

Ident(c) == Token("Ident", "None", NoValue, c)

Op(op) == Token("Op", op, NoValue, "None")

LParenthesis == Token("LParenthesis", "None", NoValue, "None")

RParenthesis == Token("RParenthesis", "None", NoValue, "None")

\* the token of type "Panic" is the panic! of the last arm
to_paren(c) ==
    CASE c = "(" -> LParenthesis
      [] c = ")" -> RParenthesis
      [] OTHER -> Token("Panic", "None", NoValue, "None")

\* MathConst::as_str
as_str(c) ==
    CASE c = "Pi" -> <<"p", "i">> [] c = "Tau" -> <<"t", "a", "u">>
      [] c = "E" -> <<"e">> [] c = "Phi" -> <<"p", "h", "i">>
      [] c = "C" -> <<"c">> [] c = "H" -> <<"h">> [] c = "G" -> <<"g">>
      [] c = "R" -> <<"r">> [] c = "Na" -> <<"n", "a">>
      [] c = "Kb" -> <<"k", "b">> [] c = "Ec" -> <<"e", "c">>

\* mutant: the text is compared without lowercasing it
MathConstTryFrom_case_sensitive(value) ==
    IF \E c \in MathConst : as_str(c) = value
    THEN CHOOSE c \in MathConst : as_str(c) = value
    ELSE "None"

\* impl TryFrom<&str> for MathConst: the constant, or "None" (the error)
MathConstTryFrom(value) ==
    LET lower == [i \in DOMAIN value |-> to_ascii_lowercase(value[i])]
    IN  CASE lower = <<"p", "i">> -> "Pi"
          [] lower = <<"t", "a", "u">> -> "Tau"
          [] lower = <<"e">> -> "E"
          [] lower = <<"p", "h", "i">> -> "Phi"
          [] lower = <<"c">> -> "C"
          [] lower = <<"h">> -> "H"
          [] lower = <<"g">> -> "G"
          [] lower = <<"r">> -> "R"
          [] lower = <<"n", "a">> -> "Na"
          [] lower = <<"k", "b">> -> "Kb"
          [] lower = <<"e", "c">> -> "Ec"
          [] OTHER -> "None"

\* impl From<MathConst> for BigDecimal: every literal but C's has more digits
\* than the model tracks, and C = 299792458 exceeds MaxMag
MathConstValue(c) == Opaque

(***************************************************************************)
(* BigDecimal::from_str on a numeric run (the run starts with a digit).    *)
(***************************************************************************)
\* index of the first exponent marker of s, or 0
RECURSIVE FindExp(_, _)
FindExp(s, i) ==
    IF i > Len(s) THEN 0
    ELSE IF is_exp_marker(s[i]) THEN i
    ELSE FindExp(s, i + 1)

\* index of the first '.' of s, or 0
RECURSIVE FindDot(_, _)
FindDot(s, i) ==
    IF i > Len(s) THEN 0
    ELSE IF s[i] = "." THEN i
    ELSE FindDot(s, i + 1)

AllDigits(s) == \A i \in DOMAIN s : is_ascii_digit(s[i])

\* the number a digit string spells; MaxMag + 1 for every number beyond MaxMag
RECURSIVE DigitsValue(_)
DigitsValue(s) ==
    IF s = <<>> THEN 0
    ELSE CHOOSE n \in
           { IF hi > MaxMag \div 10 THEN MaxMag + 1
             ELSE IF hi * 10 + DigitVal(s[Len(s)]) > MaxMag THEN MaxMag + 1
             ELSE hi * 10 + DigitVal(s[Len(s)]) :
             hi \in {DigitsValue(front) : front \in {SubSeq(s, 1, Len(s) - 1)}} } : TRUE

\* i64::from_str of the text after the exponent marker: [ok, value]
ParseExponent(s) ==
    LET signed == s # <<>> /\ s[1] \in {"+", "-"}
        digits == IF signed THEN Tail(s) ELSE s
    IN  IF digits = <<>> \/ ~AllDigits(digits)
        THEN [ok |-> FALSE, value |-> 0]
        ELSE [ok |-> TRUE,
              value |-> IF signed /\ s[1] = "-" THEN -DigitsValue(digits)
                        ELSE DigitsValue(digits)]

\* [ok, value]: the text is split at the first e/E into base and exponent, the
\* base at its first '.' into lead and trail; lead ++ trail must be digits
ParseBigDecimal(s) ==
    LET e == FindExp(s, 1)
        base_part == IF e = 0 THEN s ELSE SubSeq(s, 1, e - 1)
        exponent == IF e = 0 THEN [ok |-> TRUE, value |-> 0]
                    ELSE ParseExponent(SubSeq(s, e + 1, Len(s)))
        d == FindDot(base_part, 1)
        digits == IF d = 0 THEN base_part
                  ELSE SubSeq(base_part, 1, d - 1)
                       \o SubSeq(base_part, d + 1, Len(base_part))
        decimal_offset == IF d = 0 THEN 0 ELSE Len(base_part) - d
    IN  IF ~exponent.ok \/ digits = <<>> \/ ~AllDigits(digits)
        THEN [ok |-> FALSE, value |-> Opaque]
        ELSE IF Abs(exponent.value) > MaxMag
        THEN [ok |-> TRUE, value |-> Opaque]
        ELSE [ok |-> TRUE,
              value |-> BigDecimal(DigitsValue(digits),
                                   decimal_offset - exponent.value)]

(***************************************************************************)
(* tokenize: the scans of one iteration of the outer loop.                 *)
(***************************************************************************)
ContainsExp(s) == \E i \in DOMAIN s : is_exp_marker(s[i])

\* the numeric run: p is the index of the character peeked next
RECURSIVE ScanNumber(_, _, _)
ScanNumber(inp, p, num_str) ==
    IF p > Len(inp) THEN num_str
    ELSE LET next_char == inp[p]
         IN  IF \/ is_ascii_digit(next_char)
                \/ next_char = "."
                \/ (is_exp_marker(next_char) /\ ~ContainsExp(num_str))
             THEN IF /\ is_exp_marker(next_char)
                     /\ p + 1 <= Len(inp)
                     /\ inp[p + 1] \in {"+", "-"}
                  THEN ScanNumber(inp, p + 2,
                                  num_str \o <<next_char, inp[p + 1]>>)
                  ELSE ScanNumber(inp, p + 1, Append(num_str, next_char))
             ELSE num_str

\* the identifier run
RECURSIVE ScanIdent(_, _, _)
ScanIdent(inp, p, ident) ==
    IF p > Len(inp) THEN ident
    ELSE IF is_alphanumeric(inp[p]) THEN ScanIdent(inp, p + 1, Append(ident, inp[p]))
    ELSE ident

\* the outcome of tokenize, eval's error messages and the model's own outcome
NoResult == [kind |-> "None", err |-> "", value |-> NoValue]

Ok(v) == [kind |-> "Ok", err |-> "", value |-> v]

Err(msg) == [kind |-> "Err", err |-> msg, value |-> NoValue]

\* the outcome of a failed step: an error of eval, the model's "Untracked", or
\* a panic of the thread
Failed(msg) ==
    IF msg = "Untracked" THEN [kind |-> "Untracked", err |-> "", value |-> NoValue]
    ELSE IF msg = "panicked" THEN [kind |-> "Panic", err |-> "", value |-> NoValue]
    ELSE Err(msg)

\* mutant: a blank is looked at and not consumed
TokenizeOne_keeps_blank(inp, p, toks) ==
    IF inp[p + 1] = " " THEN [err |-> "", pos |-> p, tokens |-> toks]
    ELSE [err |-> "", pos |-> p + 1, tokens |-> Append(toks, Number(NoValue))]

\* `let num = num_str.parse()?; tokens.push(Token::Number(num))`
PushNumber(p, toks, num_str) ==
    LET num == ParseBigDecimal(num_str)
    IN  IF num.ok
        THEN [err |-> "", pos |-> p + Len(num_str),
              tokens |-> Append(toks, Number(num.value))]
        ELSE [err |-> "Invalid number", pos |-> p + Len(num_str),
              tokens |-> toks]

\* `let math_const = MathConst::try_from(ident.as_str())?;
\*  tokens.push(Token::Ident(math_const))`
PushIdent(p, toks, ident) ==
    LET math_const == MathConstTryFrom(ident)
    IN  IF math_const # "None"
        THEN [err |-> "", pos |-> p + Len(ident),
              tokens |-> Append(toks, Ident(math_const))]
        ELSE [err |-> "Unknown math constant", pos |-> p + Len(ident),
              tokens |-> toks]

\* one iteration of `while let Some(c) = chars.next()`:
\* [err, pos, tokens] after the character at pos + 1 and its run
\* (the run is bound as an element of a singleton, so that it is computed once)
TokenizeOne(inp, p, toks) ==
    LET c == inp[p + 1]
    IN  IF is_paren(c)
        THEN IF to_paren(c).type = "Panic"
             THEN [err |-> "panicked", pos |-> p + 1, tokens |-> toks]
             ELSE [err |-> "", pos |-> p + 1, tokens |-> Append(toks, to_paren(c))]
        ELSE IF is_whitespace(c) THEN [err |-> "", pos |-> p + 1, tokens |-> toks]
        ELSE IF is_op(c)
        THEN IF OperatorFrom(c) = "Panic"
             THEN [err |-> "panicked", pos |-> p + 1, tokens |-> toks]
             ELSE [err |-> "", pos |-> p + 1, tokens |-> Append(toks, Op(OperatorFrom(c)))]
        ELSE IF is_ascii_digit(c)
        THEN CHOOSE r \in {PushNumber(p, toks, num_str) :
                             num_str \in {ScanNumber(inp, p + 2, <<c>>)}} : TRUE
        ELSE IF is_ascii_alphabetic(c)
        THEN CHOOSE r \in {PushIdent(p, toks, ident) :
                             ident \in {ScanIdent(inp, p + 2, <<c>>)}} : TRUE
        ELSE [err |-> "Unexpected character", pos |-> p + 1, tokens |-> toks]

(***************************************************************************)
(* shunting_yard: the loops of one token.                                  *)
(***************************************************************************)
Last(s) == s[Len(s)]

Front(s) == SubSeq(s, 1, Len(s) - 1)

\* `while let Some(stack_top) = stack.last()` of an operator token:
\* [stack, output] once the top is no operator to pop
RECURSIVE PopOperators(_, _, _)
PopOperators(stk, out, current_op) ==
    IF stk = <<>> THEN [stack |-> stk, output |-> out]
    ELSE LET stack_top == Last(stk)
             should_pop == IF stack_top.type = "Op"
                           THEN should_pop_operator(stack_top.op, current_op)
                           ELSE FALSE
         IN  IF should_pop
             THEN PopOperators(Front(stk), Append(out, stack_top), current_op)
             ELSE [stack |-> stk, output |-> out]

\* mutant: the operators above the '(' are dropped, not moved to the output
PopToLeftParen_discards(stk, out) ==
    LET lefts == {j \in DOMAIN stk : stk[j].type = "LParenthesis"}
    IN  IF lefts = {} THEN [found_left |-> FALSE, stack |-> <<>>, output |-> out]
        ELSE [found_left |-> TRUE,
              stack |-> SubSeq(stk, 1, (CHOOSE j \in lefts : \A m \in lefts : m <= j) - 1),
              output |-> out]

\* mutant: a ')' is skipped, whatever the stack holds
PopToLeftParen_skips(stk, out) == [found_left |-> TRUE, stack |-> stk, output |-> out]

\* `while let Some(popped) = stack.pop()` of a RParenthesis:
\* [found_left, stack, output]
RECURSIVE PopToLeftParen(_, _)
PopToLeftParen(stk, out) ==
    IF stk = <<>> THEN [found_left |-> FALSE, stack |-> stk, output |-> out]
    ELSE LET popped == Last(stk)
         IN  IF popped.type = "LParenthesis"
             THEN [found_left |-> TRUE, stack |-> Front(stk), output |-> out]
             ELSE IF popped.type = "Op"
             THEN PopToLeftParen(Front(stk), Append(out, popped))
             ELSE PopToLeftParen(Front(stk), out)

\* mutant: a parenthesis left on the stack is dropped without an error
DrainStack_drops_parens(stk, out) ==
    [ok |-> TRUE, stack |-> <<>>,
     output |-> out \o [i \in 1 .. Cardinality({j \in DOMAIN stk : stk[j].type = "Op"}) |->
                          stk[CHOOSE j \in DOMAIN stk :
                                /\ stk[j].type = "Op"
                                /\ Cardinality({m \in DOMAIN stk :
                                                  m >= j /\ stk[m].type = "Op"}) = i]]]

\* the final `while let Some(token) = stack.pop()`: [ok, stack, output]
RECURSIVE DrainStack(_, _)
DrainStack(stk, out) ==
    IF stk = <<>> THEN [ok |-> TRUE, stack |-> stk, output |-> out]
    ELSE LET token == Last(stk)
         IN  IF token.type \in {"LParenthesis", "RParenthesis"}
             THEN [ok |-> FALSE, stack |-> Front(stk), output |-> out]
             ELSE DrainStack(Front(stk), Append(out, token))

\* mutant: '-' is always the binary operator
CurrentOp_always_binary(op, expect) == op

\* the operator an Op token stands for where it is read
CurrentOp(op, expect) == IF expect /\ op = "Sub" THEN "UnarySub" ELSE op

\* mutant: no placement test (shunting_yard of src/src/tokenizer/mod.rs)
UnexpectedOperator_never(op, expect) == FALSE

\* an operator may not stand where an operand is expected, unless it is '-'
UnexpectedOperator(op, expect) == expect /\ op # "Sub"

(***************************************************************************)
(* eval_rpn: apply_operator, apply_unary_operator and one token's step.    *)
(***************************************************************************)
\* [err, value]: err is "" or the message of the bail!
apply_operator(lhs, rhs, op) ==
    CASE op = "Add" -> [err |-> "", value |-> Add(lhs, rhs)]
      [] op = "Sub" -> [err |-> "", value |-> Sub(lhs, rhs)]
      [] op = "Mul" -> [err |-> "", value |-> Mul(lhs, rhs)]
      [] op = "Div" ->
           IF ~rhs.known THEN [err |-> "Untracked", value |-> Opaque]
           ELSE IF is_zero(rhs) THEN [err |-> "Division by zero", value |-> Opaque]
           ELSE [err |-> "", value |-> Div(lhs, rhs)]
      [] op = "Mod" ->
           IF ~rhs.known THEN [err |-> "Untracked", value |-> Opaque]
           ELSE IF is_zero(rhs) THEN [err |-> "Modulo by zero", value |-> Opaque]
           ELSE [err |-> "", value |-> Rem(lhs, rhs)]
      [] op = "Pow" ->
           IF ~rhs.known THEN [err |-> "Untracked", value |-> Opaque]
           ELSE IF ~is_integer(rhs)
           THEN [err |-> "Exponent must be an integer for power operation",
                 value |-> Opaque]
           ELSE IF ~to_i64_fits(rhs)
           THEN [err |-> "Exponent is out of range for power operation",
                 value |-> Opaque]
           ELSE [err |-> "", value |-> powi(lhs, to_i64(rhs))]
      [] op = "UnarySub" ->
           [err |-> "Unary operator cannot be applied in binary context",
            value |-> Opaque]

apply_unary_operator(value, op) ==
    IF op = "UnarySub" THEN [err |-> "", value |-> Neg(value)]
    ELSE [err |-> "Unsupported unary operator", value |-> Opaque]

\* one iteration of `for token in tokens` of eval_rpn: [err, stack]
EvalToken(token, stk) ==
    CASE token.type = "Number" -> [err |-> "", stack |-> Append(stk, token.value)]
      [] token.type = "Ident" ->
           [err |-> "", stack |-> Append(stk, MathConstValue(token.ident))]
      [] token.type = "Op" ->
           IF token.op = "UnarySub"
           THEN IF Len(stk) < 1
                THEN [err |-> "Not enough operands for operator", stack |-> stk]
                ELSE LET r == apply_unary_operator(Last(stk), token.op)
                     IN  [err |-> r.err, stack |-> Append(Front(stk), r.value)]
           ELSE IF Len(stk) < 2
                THEN [err |-> "Not enough operands for operator", stack |-> <<>>]
                ELSE LET rhs == Last(stk)
                         lhs == Last(Front(stk))
                         r == apply_operator(lhs, rhs, token.op)
                     IN  [err |-> r.err,
                          stack |-> Append(Front(Front(stk)), r.value)]
      [] OTHER -> [err |-> "Parenthesis encountered in RPN stream", stack |-> stk]

(***************************************************************************)
(* eval as a function of its input: tokenize, shunting_yard and eval_rpn   *)
(* each run from start to end.                                             *)
(***************************************************************************)
\* [err, tokens]
RECURSIVE tokenize_from(_, _, _)
tokenize_from(inp, p, toks) ==
    IF p >= Len(inp) THEN [err |-> "", tokens |-> toks]
    ELSE LET r == TokenizeOne(inp, p, toks)
         IN  IF r.err # "" THEN [err |-> r.err, tokens |-> <<>>]
             ELSE tokenize_from(inp, r.pos, r.tokens)

tokenize(inp) == tokenize_from(inp, 0, <<>>)

\* [err, output]
RECURSIVE shunting_yard_from(_, _, _, _, _)
shunting_yard_from(toks, i, stk, out, expect) ==
    IF i > Len(toks)
    THEN LET r == DrainStack(stk, out)
         IN  IF r.ok THEN [err |-> "", output |-> r.output]
             ELSE [err |-> "Mismatched parentheses", output |-> <<>>]
    ELSE LET token == toks[i]
         IN  CASE token.type \in {"Number", "Ident"} ->
                    shunting_yard_from(toks, i + 1, stk, Append(out, token), FALSE)
               [] token.type = "Op" ->
                    IF UnexpectedOperator(token.op, expect)
                    THEN [err |-> "Unexpected operator placement", output |-> <<>>]
                    ELSE LET current_op == CurrentOp(token.op, expect)
                             r == PopOperators(stk, out, current_op)
                         IN  shunting_yard_from(toks, i + 1,
                                                Append(r.stack, Op(current_op)),
                                                r.output, TRUE)
               [] token.type = "LParenthesis" ->
                    shunting_yard_from(toks, i + 1, Append(stk, token), out, TRUE)
               [] OTHER ->
                    LET r == PopToLeftParen(stk, out)
                    IN  IF r.found_left
                        THEN shunting_yard_from(toks, i + 1, r.stack, r.output, FALSE)
                        ELSE [err |-> "Mismatched parentheses", output |-> <<>>]

shunting_yard(toks) == shunting_yard_from(toks, 1, <<>>, <<>>, TRUE)

\* the outcome of eval_rpn
RECURSIVE eval_rpn_from(_, _, _)
eval_rpn_from(out, i, stk) ==
    IF i > Len(out)
    THEN IF Len(stk) # 1 THEN Err("Invalid RPN expression") ELSE Ok(Last(stk))
    ELSE LET r == EvalToken(out[i], stk)
         IN  IF r.err # "" THEN Failed(r.err)
             ELSE eval_rpn_from(out, i + 1, r.stack)

eval_rpn(out) == eval_rpn_from(out, 1, <<>>)

\* tokenize(input)?, shunting_yard(&tokens)?, eval_rpn(&rpn)
eval(inp) ==
    LET t == tokenize(inp)
    IN  IF t.err # "" THEN Failed(t.err)
        ELSE LET rpn == shunting_yard(t.tokens)
             IN  IF rpn.err # "" THEN Err(rpn.err)
                 ELSE eval_rpn(rpn.output)

(***************************************************************************)
(* The inputs of the model.                                                *)
(***************************************************************************)
\* longest input of the specification over all character strings
MaxLen == 4
\* most operators of an input of the specifications over expressions
MaxOps == 2

\* all sequences over S of length 0 .. n
RECURSIVE SeqsUpTo(_, _)
SeqsUpTo(S, n) ==
    IF n = 0 THEN {<<>>}
    ELSE LET shorter == SeqsUpTo(S, n - 1)
         IN  shorter \cup {Append(s, c) : s \in shorter, c \in S}

\* the infix expressions with exactly k operators and p pairs of parentheses:
\* E ::= operand | '-' E (when unary) | E binop E | '(' E ')'
RECURSIVE Exprs(_, _, _, _, _)
Exprs(operands, binops, unary, k, p) ==
    (IF k = 0 /\ p = 0 THEN operands ELSE {})
    \cup (IF p > 0
          THEN {<<"(">> \o e \o <<")">> : e \in Exprs(operands, binops, unary, k, p - 1)}
          ELSE {})
    \cup (IF unary /\ k > 0
          THEN {<<"-">> \o e : e \in Exprs(operands, binops, unary, k - 1, p)}
          ELSE {})
    \cup (IF k > 0
          THEN UNION { {l \o <<b>> \o r :
                          l \in Exprs(operands, binops, unary, k1p[1], k1p[2]),
                          b \in binops,
                          r \in Exprs(operands, binops, unary,
                                      k - 1 - k1p[1], p - k1p[2])} :
                       k1p \in (0 .. k - 1) \X (0 .. p) }
          ELSE {})

\* the expressions with at most n operators and at most one pair of parentheses
ExprsUpTo(operands, binops, unary, n) ==
    UNION { Exprs(operands, binops, unary, k, p) : k \in 0 .. n, p \in 0 .. 1 }

\* inputs of the evaluator's tests (test_eval_int, test_eval_float,
\* test_eval_math_const) and of their failing counterparts
TestInputs ==
    { <<"3", " ", "+", " ", "4">>,
      <<"-", "5", " ", "*", " ", "4">>,
      <<"-", "(", "-", "3", " ", "*", " ", "2", ")">>,
      <<"3", " ", "+", " ", "4", " ", "*", " ", "5", " ", "/", " ", "2">>,
      <<"2", "^", "(", "3", " ", "+", " ", "1", ")">>,
      <<"1", "0", " ", "%", " ", "3", " ", "*", " ", "2">>,
      <<"4", ".", "2", "e", "-", "2">>,
      <<"P", "i", " ", "*", " ", "2">>,
      <<"5", " ", "/", " ", "0">>,
      <<"5", " ", "%", " ", "0">>,
      <<"2", " ", "^", " ", "0", ".", "5">>,
      <<"2", " ", "^", " ", "1", "e", "1", "9">>,
      <<"(", "3", " ", "+", " ", "4">>,
      <<"3", " ", "+", " ", "4", ")">>,
      <<"3", " ", "*", " ", "/", " ", "4">>,
      <<"3", " ", "$", " ", "4">>,
      <<"1", ".", "2", ".", "3">>,
      <<"p", "i", "x">>,
      <<"3", " ", "4">>,
      <<"3", " ", "-">>,
      <<" ", " ">>,
      <<>> }

(***************************************************************************)
(* The state machine: one call of eval.                                    *)
(***************************************************************************)
\* the locals of a call of eval on inp before its first step
NewCall(inp) ==
    [input |-> inp, pc |-> "tokenize", pos |-> 0, tokens |-> <<>>, idx |-> 0,
     stack |-> <<>>, output |-> <<>>, expect_operand |-> TRUE, ridx |-> 0,
     vstack |-> <<>>, result |-> NoResult]

\* the locals of the running call
Locals ==
    [input |-> input, pc |-> pc, pos |-> pos, tokens |-> tokens, idx |-> idx,
     stack |-> stack, output |-> output, expect_operand |-> expect_operand,
     ridx |-> ridx, vstack |-> vstack, result |-> result]

\* a call of eval on one of the inputs, before its first step
StartOn(inputs) ==
    /\ input \in inputs
    /\ pc = "tokenize"
    /\ pos = 0
    /\ tokens = <<>>
    /\ idx = 0
    /\ stack = <<>>
    /\ output = <<>>
    /\ expect_operand = TRUE
    /\ ridx = 0
    /\ vstack = <<>>
    /\ result = NoResult

\* one call of eval, and no other call
InitOn(inputs) ==
    /\ StartOn(inputs)
    /\ parked = <<>>

\* tokenize: one iteration of the outer loop; an error ends eval
TokenizeStep ==
    /\ pc = "tokenize"
    /\ pos < Len(input)
    /\ \E r \in {TokenizeOne(input, pos, tokens)} :
           /\ pos' = r.pos
           /\ tokens' = r.tokens
           /\ pc' = IF r.err = "" THEN "tokenize" ELSE "done"
           /\ result' = IF r.err = "" THEN result ELSE Failed(r.err)
    /\ UNCHANGED <<parked, input, idx, stack, output, expect_operand, ridx, vstack>>

\* tokenize returns Ok(tokens); shunting_yard starts
TokenizeDone ==
    /\ pc = "tokenize"
    /\ pos = Len(input)
    /\ pc' = "parse"
    /\ UNCHANGED <<parked, input, pos, tokens, idx, stack, output, expect_operand,
                   ridx, vstack, result>>

\* mutant: an operand waits on the stack like an operator
ParseOperand_on_stack ==
    /\ pc = "parse"
    /\ idx < Len(tokens)
    /\ tokens[idx + 1].type \in {"Number", "Ident"}
    /\ stack' = Append(stack, tokens[idx + 1])
    /\ expect_operand' = FALSE
    /\ idx' = idx + 1
    /\ UNCHANGED <<parked, input, pc, pos, tokens, output, ridx, vstack, result>>

\* shunting_yard: Token::Number(_) | Token::Ident(_)
ParseOperand ==
    /\ pc = "parse"
    /\ idx < Len(tokens)
    /\ tokens[idx + 1].type \in {"Number", "Ident"}
    /\ output' = Append(output, tokens[idx + 1])
    /\ expect_operand' = FALSE
    /\ idx' = idx + 1
    /\ UNCHANGED <<parked, input, pc, pos, tokens, stack, ridx, vstack, result>>

\* shunting_yard: Token::Op(op)
ParseOperator ==
    /\ pc = "parse"
    /\ idx < Len(tokens)
    /\ tokens[idx + 1].type = "Op"
    /\ LET op == tokens[idx + 1].op
           current_op == CurrentOp(op, expect_operand)
           r == PopOperators(stack, output, current_op)
       IN  IF UnexpectedOperator(op, expect_operand)
           THEN /\ pc' = "done"
                /\ result' = Err("Unexpected operator placement")
                /\ UNCHANGED <<stack, output, expect_operand>>
           ELSE /\ stack' = Append(r.stack, Op(current_op))
                /\ output' = r.output
                /\ expect_operand' = TRUE
                /\ UNCHANGED <<pc, result>>
    /\ idx' = idx + 1
    /\ UNCHANGED <<parked, input, pos, tokens, ridx, vstack>>

\* shunting_yard: Token::LParenthesis
ParseLParen ==
    /\ pc = "parse"
    /\ idx < Len(tokens)
    /\ tokens[idx + 1].type = "LParenthesis"
    /\ stack' = Append(stack, LParenthesis)
    /\ expect_operand' = TRUE
    /\ idx' = idx + 1
    /\ UNCHANGED <<parked, input, pc, pos, tokens, output, ridx, vstack, result>>

\* shunting_yard: Token::RParenthesis
ParseRParen ==
    /\ pc = "parse"
    /\ idx < Len(tokens)
    /\ tokens[idx + 1].type = "RParenthesis"
    /\ LET r == PopToLeftParen(stack, output)
       IN  /\ stack' = r.stack
           /\ output' = r.output
           /\ IF r.found_left
              THEN /\ expect_operand' = FALSE
                   /\ UNCHANGED <<pc, result>>
              ELSE /\ pc' = "done"
                   /\ result' = Err("Mismatched parentheses")
                   /\ UNCHANGED expect_operand
    /\ idx' = idx + 1
    /\ UNCHANGED <<parked, input, pos, tokens, ridx, vstack>>

\* shunting_yard: the final drain of the stack; eval_rpn starts on Ok(output)
ParseDrain ==
    /\ pc = "parse"
    /\ idx = Len(tokens)
    /\ LET r == DrainStack(stack, output)
       IN  /\ stack' = r.stack
           /\ output' = r.output
           /\ pc' = IF r.ok THEN "eval" ELSE "done"
           /\ result' = IF r.ok THEN result ELSE Err("Mismatched parentheses")
    /\ UNCHANGED <<parked, input, pos, tokens, idx, expect_operand, ridx, vstack>>

\* eval_rpn: one token of the postfix sequence
EvalStep ==
    /\ pc = "eval"
    /\ ridx < Len(output)
    /\ LET r == EvalToken(output[ridx + 1], vstack)
       IN  /\ vstack' = r.stack
           /\ pc' = IF r.err = "" THEN "eval" ELSE "done"
           /\ result' = IF r.err = "" THEN result ELSE Failed(r.err)
    /\ ridx' = ridx + 1
    /\ UNCHANGED <<parked, input, pos, tokens, idx, stack, output, expect_operand>>

\* mutant: the top of the stack is returned, however many values are left
EvalFinish_returns_top ==
    /\ pc = "eval"
    /\ ridx = Len(output)
    /\ pc' = "done"
    /\ result' = IF vstack = <<>> THEN Err("Invalid RPN expression")
                 ELSE Ok(Last(vstack))
    /\ vstack' = IF vstack = <<>> THEN vstack ELSE Front(vstack)
    /\ UNCHANGED <<parked, input, pos, tokens, idx, stack, output, expect_operand, ridx>>

\* eval_rpn: the length test after the loop and the final pop
EvalFinish ==
    /\ pc = "eval"
    /\ ridx = Len(output)
    /\ pc' = "done"
    /\ result' = IF Len(vstack) # 1 THEN Err("Invalid RPN expression")
                 ELSE Ok(Last(vstack))
    /\ vstack' = IF Len(vstack) # 1 THEN vstack ELSE <<>>
    /\ UNCHANGED <<parked, input, pos, tokens, idx, stack, output, expect_operand, ridx>>

Next ==
    \/ TokenizeStep
    \/ TokenizeDone
    \/ ParseOperand
    \/ ParseOperator
    \/ ParseLParen
    \/ ParseRParen
    \/ ParseDrain
    \/ EvalStep
    \/ EvalFinish

(***************************************************************************)
(* Specifications: the same call of eval over different sets of inputs.    *)
(***************************************************************************)
\* every character string of length <= MaxLen over these characters
Chars == {"2", "0", "e", "-", "*", "/", "^", "(", ")"}

Init == InitOn(SeqsUpTo(Chars, MaxLen) \cup TestInputs)

Spec == Init /\ [][Next]_vars

\* eval is called on some input: the caller passes the string
LiveChars == {"2", " ", "-", "^", "(", ")"}

LiveInputs == SeqsUpTo(LiveChars, MaxLen) \cup TestInputs

Call ==
    /\ pc = "call"
    /\ input' \in LiveInputs
    /\ pc' = "tokenize"
    /\ UNCHANGED <<parked, pos, tokens, idx, stack, output, expect_operand,
                   ridx, vstack, result>>

InitLive ==
    /\ pc = "call"
    /\ input = <<>>
    /\ pos = 0
    /\ tokens = <<>>
    /\ idx = 0
    /\ stack = <<>>
    /\ output = <<>>
    /\ expect_operand = TRUE
    /\ ridx = 0
    /\ vstack = <<>>
    /\ result = NoResult
    /\ parked = <<>>

NextLive == Call \/ Next

\* the call under the fairness of a running thread: a call that can take a step
\* takes it
SpecLive == InitLive /\ [][NextLive]_vars /\ WF_vars(NextLive)

\* integer expressions over all six binary operators
ArithOperands == {<<"2">>, <<"3">>}

ArithOps == {"+", "-", "*", "/", "%", "^"}

InitArith == InitOn(ExprsUpTo(ArithOperands, ArithOps, FALSE, MaxOps) \cup TestInputs)

SpecArith == InitArith /\ [][Next]_vars

\* expressions that divide by 2 and by zero written 0.0, 0e5 or 2 - 2
ZeroOperands == {<<"2">>, <<"0", ".", "0">>, <<"0", "e", "5">>}

InitZero == InitOn(ExprsUpTo(ZeroOperands, {"-", "/", "%"}, FALSE, MaxOps) \cup TestInputs)

SpecZero == InitZero /\ [][Next]_vars

\* powers with integer, fractional, negative and out-of-range exponents
PowOperands ==
    {<<"2">>, <<"2", ".", "0">>, <<"0", ".", "5">>, <<"1", "e", "1", "9">>}

InitPow == InitOn(ExprsUpTo(PowOperands, {"^", "+"}, TRUE, MaxOps) \cup TestInputs)

SpecPow == InitPow /\ [][Next]_vars

\* every character string of length <= MaxLen + 1 with lexical, parse and
\* arithmetic errors in any order
StageChars == {"2", "0", "/", "%", "(", ")", "$"}

InitStages == InitOn(SeqsUpTo(StageChars, MaxLen + 1) \cup TestInputs)

SpecStages == InitStages /\ [][Next]_vars

\* every character string of length <= MaxLen + 1 over the characters of a
\* numeric literal
LexChars == {"1", ".", "e", "E", "-", "+"}

InitLex == InitOn(SeqsUpTo(LexChars, MaxLen + 1) \cup TestInputs)

SpecLex == InitLex /\ [][Next]_vars

\* identifier runs: every string of length <= MaxLen over IdentChars, and every
\* constant name in lower case, in upper case and extended by a letter or digit
IdentChars == {"p", "i", "P", "I", "x", "2", "+"}

ConstantSpellings ==
    UNION {{as_str(c),
            [i \in DOMAIN as_str(c) |-> UpperChars[IndexOf(LowerChars, as_str(c)[i])]],
            Append(as_str(c), "x"),
            Append(as_str(c), "2")} : c \in MathConst}

InitIdent == InitOn(SeqsUpTo(IdentChars, MaxLen) \cup ConstantSpellings \cup TestInputs)

SpecIdent == InitIdent /\ [][Next]_vars

\* the expressions of the grammar E ::= Number | Identifier | '-' E | E binop E
\* | '(' E ')' with at most MaxOps operators
GrammarOperands == {<<"2">>, <<"p", "i">>}

InitGrammar ==
    InitOn(ExprsUpTo(GrammarOperands, ArithOps, TRUE, MaxOps) \cup TestInputs)

SpecGrammar == InitGrammar /\ [][Next]_vars

\* every character string of length <= MaxLen + 1 with operands, blanks, one
\* operator and parentheses
JuxtaChars == {"2", " ", "+", "(", ")"}

InitJuxta == InitOn(SeqsUpTo(JuxtaChars, MaxLen + 1) \cup TestInputs)

SpecJuxta == InitJuxta /\ [][Next]_vars

(***************************************************************************)
(* Concurrent callers: every call of eval has its own locals; the          *)
(* scheduler runs one call at a time and may switch between any two steps. *)
(***************************************************************************)
\* number of calls in progress
MaxCallers == 2

\* inputs whose calls together take every step of the pipeline
ConcurrentInputs ==
    { <<"(", "2", ")", "-", "2">>, <<"2", "/", "0">>, <<"-", "2">>, <<"2", "$">> }

\* mutant: expect_operand is one flag shared by all calls
Switch_shares_flag(i) ==
    /\ i \in DOMAIN parked
    /\ parked' = [parked EXCEPT ![i] = Locals]
    /\ input' = parked[i].input
    /\ pc' = parked[i].pc
    /\ pos' = parked[i].pos
    /\ tokens' = parked[i].tokens
    /\ idx' = parked[i].idx
    /\ stack' = parked[i].stack
    /\ output' = parked[i].output
    /\ ridx' = parked[i].ridx
    /\ vstack' = parked[i].vstack
    /\ result' = parked[i].result
    /\ UNCHANGED expect_operand

\* the scheduler suspends the running call and resumes call i: the locals of
\* each call are its own, nothing is carried over
Switch(i) ==
    /\ i \in DOMAIN parked
    /\ parked' = [parked EXCEPT ![i] = Locals]
    /\ input' = parked[i].input
    /\ pc' = parked[i].pc
    /\ pos' = parked[i].pos
    /\ tokens' = parked[i].tokens
    /\ idx' = parked[i].idx
    /\ stack' = parked[i].stack
    /\ output' = parked[i].output
    /\ expect_operand' = parked[i].expect_operand
    /\ ridx' = parked[i].ridx
    /\ vstack' = parked[i].vstack
    /\ result' = parked[i].result

Schedule == \E i \in DOMAIN parked : Switch(i)

InitConcurrent ==
    /\ StartOn(ConcurrentInputs)
    /\ parked \in [1 .. MaxCallers - 1 -> {NewCall(inp) : inp \in ConcurrentInputs}]

NextConcurrent == Next \/ Schedule

SpecConcurrent == InitConcurrent /\ [][NextConcurrent]_vars

(***************************************************************************)
(* The error messages by the stage that raises them.                       *)
(***************************************************************************)
LexErrors == {"Unexpected character", "Invalid number", "Unknown math constant"}

ParseErrors == {"Unexpected operator placement", "Mismatched parentheses"}

OperatorErrors ==
    {"Not enough operands for operator", "Division by zero", "Modulo by zero",
     "Exponent must be an integer for power operation",
     "Exponent is out of range for power operation",
     "Unary operator cannot be applied in binary context",
     "Unsupported unary operator"}

\* tokenize has returned Ok: tokens holds the tokens of the whole input
Tokenized == pc # "tokenize" /\ result.err \notin LexErrors

\* shunting_yard has returned Ok: output holds the postfix sequence
Parsed == Tokenized /\ pc # "parse" /\ result.err \notin ParseErrors

(***************************************************************************)
(* Reference evaluation of an infix token sequence by recursive descent:   *)
(*   Sum   ::= Prod  { [+ -] Prod }          grouped left to right         *)
(*   Prod  ::= Power { [* / %] Power }       grouped left to right         *)
(*   Power ::= Atom [ ^ Power ]              grouped right to left         *)
(*   Atom  ::= Number | '(' Sum ')'                                        *)
(* [ok, val, next]: next is the index of the first token not read.         *)
(***************************************************************************)
RefFail == [ok |-> FALSE, val |-> Opaque, next |-> 0]

RefOk(v, n) == [ok |-> TRUE, val |-> v, next |-> n]

\* l op r in the arithmetic of the decimals; no value for x / 0, x % 0 and an
\* exponent that is no integer within the multiplied-out range
RefArith(op, l, r, n) ==
    CASE op = "Add" -> RefOk(Add(l, r), n)
      [] op = "Sub" -> RefOk(Sub(l, r), n)
      [] op = "Mul" -> RefOk(Mul(l, r), n)
      [] op = "Div" -> IF r.known /\ r.int_val # 0 THEN RefOk(Div(l, r), n) ELSE RefFail
      [] op = "Mod" -> IF r.known /\ r.int_val # 0 THEN RefOk(Rem(l, r), n) ELSE RefFail
      [] op = "Pow" -> IF r.known /\ Canon(r).scale <= 0 /\ Canon(r).scale >= -2
                       THEN RefOk(powi(l, Canon(r).int_val * Pow10(-Canon(r).scale)), n)
                       ELSE RefFail

IsOpAt(toks, i, ops) == i <= Len(toks) /\ toks[i].type = "Op" /\ toks[i].op \in ops

RECURSIVE RefSum(_, _)
RECURSIVE RefSumRest(_, _)
RECURSIVE RefProd(_, _)
RECURSIVE RefProdRest(_, _)
RECURSIVE RefPower(_, _)
RECURSIVE RefAtom(_, _)

RefAtom(toks, i) ==
    IF i > Len(toks) THEN RefFail
    ELSE IF toks[i].type = "Number" THEN RefOk(toks[i].value, i + 1)
    ELSE IF toks[i].type = "LParenthesis"
    THEN LET r == RefSum(toks, i + 1)
         IN  IF r.ok /\ r.next <= Len(toks) /\ toks[r.next].type = "RParenthesis"
             THEN RefOk(r.val, r.next + 1)
             ELSE RefFail
    ELSE RefFail

RefPower(toks, i) ==
    LET b == RefAtom(toks, i)
    IN  IF b.ok /\ IsOpAt(toks, b.next, {"Pow"})
        THEN LET e == RefPower(toks, b.next + 1)
             IN  IF e.ok THEN RefArith("Pow", b.val, e.val, e.next) ELSE RefFail
        ELSE b

\* acc is the value of the factors read so far
RefProdRest(toks, acc) ==
    IF acc.ok /\ IsOpAt(toks, acc.next, {"Mul", "Div", "Mod"})
    THEN LET r == RefPower(toks, acc.next + 1)
         IN  IF r.ok
             THEN RefProdRest(toks, RefArith(toks[acc.next].op, acc.val, r.val, r.next))
             ELSE RefFail
    ELSE acc

RefProd(toks, i) == RefProdRest(toks, RefPower(toks, i))

\* acc is the value of the terms read so far
RefSumRest(toks, acc) ==
    IF acc.ok /\ IsOpAt(toks, acc.next, {"Add", "Sub"})
    THEN LET r == RefProd(toks, acc.next + 1)
         IN  IF r.ok
             THEN RefSumRest(toks, RefArith(toks[acc.next].op, acc.val, r.val, r.next))
             ELSE RefFail
    ELSE acc

RefSum(toks, i) == RefSumRest(toks, RefProd(toks, i))

\* the reference value of the whole token sequence: [ok, val]
RefEval(toks) ==
    LET r == RefSum(toks, 1)
    IN  [ok |-> r.ok /\ r.next = Len(toks) + 1 /\ r.val.known, val |-> r.val]

\* the tokens are integer literals, parentheses and operators among ops
IsIntegerInfix(toks, ops) ==
    /\ toks # <<>>
    /\ \A i \in DOMAIN toks :
          \/ toks[i].type = "Number" /\ toks[i].value.known /\ toks[i].value.scale = 0
          \/ toks[i].type \in {"LParenthesis", "RParenthesis"}
          \/ toks[i].type = "Op" /\ toks[i].op \in ops

HasOp(toks, op) == \E i \in DOMAIN toks : toks[i].type = "Op" /\ toks[i].op = op

(***************************************************************************)
(* C1.  For an integer expression over + - * / % and parentheses whose      *)
(* reference evaluation has a value (the operators * / % bind tighter than *)
(* + and -, equal precedence groups left to right, every division is       *)
(* exact), eval returns Ok with that value.                                *)
(***************************************************************************)
C1_LeftAssocPrecedence ==
    (pc = "done" /\ Tokenized
        /\ IsIntegerInfix(tokens, {"Add", "Sub", "Mul", "Div", "Mod"})
        /\ RefEval(tokens).ok)
    => (result.kind = "Ok" /\ NumEq(result.value, RefEval(tokens).val))

\* 3 - 2 - 2 is (3 - 2) - 2 = -1, 3 / 2 * 2 is (3 / 2) * 2 = 3 and
\* 3 % 2 * 2 is (3 % 2) * 2 = 2
C1_Witness ==
    /\ pc = "done"
    /\ \/ input = <<"3", "-", "2", "-", "2">> /\ NumEq(result.value, BigDecimal(-1, 0))
       \/ input = <<"3", "/", "2", "*", "2">> /\ NumEq(result.value, BigDecimal(3, 0))
       \/ input = <<"3", "%", "2", "*", "2">> /\ NumEq(result.value, BigDecimal(2, 0))
    /\ result.kind = "Ok"
    /\ NumEq(result.value, RefEval(tokens).val)

(***************************************************************************)
(* C2.  Power groups right to left and binds tighter than the other binary *)
(* operators: a ^ b ^ c becomes [a, b, c, Pow, Pow], and an integer        *)
(* expression containing ^ evaluates to its reference value (a ^ (b ^ c),  *)
(* a * (b ^ c)).                                                           *)
(***************************************************************************)
C2_PowerRightAssoc ==
    /\ (Parsed /\ Len(tokens) = 5
          /\ tokens[1].type = "Number" /\ tokens[3].type = "Number"
          /\ tokens[5].type = "Number"
          /\ tokens[2] = Op("Pow") /\ tokens[4] = Op("Pow"))
       => output = <<tokens[1], tokens[3], tokens[5], Op("Pow"), Op("Pow")>>
    /\ (pc = "done" /\ Tokenized
          /\ IsIntegerInfix(tokens, {"Add", "Sub", "Mul", "Div", "Mod", "Pow"})
          /\ HasOp(tokens, "Pow")
          /\ RefEval(tokens).ok)
       => (result.kind = "Ok" /\ NumEq(result.value, RefEval(tokens).val))

\* 2 ^ 2 ^ 3 = 2 ^ 8 = 256 (not 4 ^ 3 = 64); 3 * 2 ^ 3 = 24 (not 216)
C2_Witness ==
    /\ pc = "done"
    /\ \/ input = <<"2", "^", "2", "^", "3">> /\ result = Ok(BigDecimal(256, 0))
       \/ input = <<"3", "*", "2", "^", "3">> /\ result = Ok(BigDecimal(24, 0))

(***************************************************************************)
(* C3.  When shunting_yard reads a token, expect_operand is TRUE exactly   *)
(* if the token is the first or the previous token was an operator or a    *)
(* LParenthesis (FALSE exactly if the previous token was a Number, an      *)
(* Ident or a RParenthesis); a '-' read with the flag TRUE is pushed as    *)
(* UnarySub, a '-' read with the flag FALSE as Sub.                        *)
(***************************************************************************)
C3_ExpectOperand ==
    [][ (pc = "parse" /\ idx < Len(tokens)) =>
          /\ expect_operand = (idx = 0 \/ tokens[idx].type \in {"Op", "LParenthesis"})
          /\ (~expect_operand) =
                (idx > 0 /\ tokens[idx].type \in {"Number", "Ident", "RParenthesis"})
          /\ (tokens[idx + 1] = Op("Sub")) =>
                /\ pc' = "parse"
                /\ Last(stack') = Op(IF expect_operand THEN "UnarySub" ELSE "Sub")
      ]_vars

\* 2 - - ...: the first '-' was pushed as Sub, the second as UnarySub
C3_Witness ==
    /\ pc = "parse"
    /\ idx = 3
    /\ tokens[2] = Op("Sub") /\ tokens[3] = Op("Sub")
    /\ stack = <<Op("Sub"), Op("UnarySub")>>
    /\ expect_operand

(***************************************************************************)
(* C4.  'a op -b' is parsed to [a, b, UnarySub, op] for every binary op,   *)
(* and eval returns a value for 'a ^ -n' (the reciprocal power).           *)
(***************************************************************************)
IsOperand(t) == t.type \in {"Number", "Ident"}

C4_NegatedRightOperand ==
    (Parsed /\ Len(tokens) = 4
        /\ IsOperand(tokens[1]) /\ tokens[2].type = "Op"
        /\ tokens[3] = Op("Sub") /\ IsOperand(tokens[4]))
    => /\ output = <<tokens[1], tokens[4], Op("UnarySub"), tokens[2]>>
       /\ (pc = "done" /\ tokens[2] = Op("Pow")
             /\ tokens[1].type = "Number" /\ tokens[4].type = "Number"
             /\ tokens[4].value.scale = 0 /\ tokens[4].value.int_val > 0)
          => result.kind \in {"Ok", "Untracked"}

(***************************************************************************)
(* C5.  An operator other than '-' that is the first token or follows an   *)
(* operator or a LParenthesis makes shunting_yard fail at that token with  *)
(* "Unexpected operator placement": no later token is read and no postfix  *)
(* sequence is returned.                                                   *)
(***************************************************************************)
OperandExpectedAt(toks, i) == i = 1 \/ toks[i - 1].type \in {"Op", "LParenthesis"}

MisplacedOperatorAt(toks, i) ==
    toks[i].type = "Op" /\ toks[i].op # "Sub" /\ OperandExpectedAt(toks, i)

C5_UnexpectedOperator ==
    \A i \in DOMAIN tokens :
        (Tokenized /\ MisplacedOperatorAt(tokens, i) /\ idx >= i)
        => /\ idx = i
           /\ pc = "done"
           /\ result = Err("Unexpected operator placement")

\* an operator after an operator, with a token behind it that is never read
C5_Witness ==
    /\ pc = "done"
    /\ result = Err("Unexpected operator placement")
    /\ idx = 3 /\ Len(tokens) = 4
    /\ tokens[2].type = "Op"

(***************************************************************************)
(* C6.  A lexically valid input with unbalanced parentheses never yields a *)
(* value.  (Original: ... and the error is always "Mismatched              *)
(* parentheses".)  Amended: the error is "Mismatched parentheses" unless   *)
(* an operator other than '-' stands where an operand is expected before   *)
(* the first unmatched ')' (anywhere, when no ')' is unmatched); then it   *)
(* is "Unexpected operator placement".                                     *)
(***************************************************************************)
CountType(toks, type, n) == Cardinality({i \in 1 .. n : toks[i].type = type})

\* the first n tokens hold more ')' than '('
ClosesTooMany(toks, n) ==
    CountType(toks, "RParenthesis", n) > CountType(toks, "LParenthesis", n)

Unbalanced(toks) ==
    \/ \E n \in DOMAIN toks : ClosesTooMany(toks, n)
    \/ CountType(toks, "RParenthesis", Len(toks)) # CountType(toks, "LParenthesis", Len(toks))

\* a misplaced operator stands before every unmatched ')'
MisplacedOperatorFirst(toks) ==
    \E i \in DOMAIN toks :
        /\ MisplacedOperatorAt(toks, i)
        /\ \A n \in 1 .. i : ~ClosesTooMany(toks, n)

C6_Original ==
    (pc = "done" /\ Tokenized /\ Unbalanced(tokens))
    => result = Err("Mismatched parentheses")

C6_UnbalancedFails ==
    (pc = "done" /\ Tokenized /\ Unbalanced(tokens))
    => result = Err(IF MisplacedOperatorFirst(tokens)
                    THEN "Unexpected operator placement"
                    ELSE "Mismatched parentheses")

\* a '(' never closed: the final drain of the stack finds it
C6_Witness ==
    /\ pc = "done"
    /\ Tokenized /\ Unbalanced(tokens)
    /\ idx = Len(tokens)
    /\ ~(\E n \in DOMAIN tokens : ClosesTooMany(tokens, n))
    /\ result = Err("Mismatched parentheses")

(***************************************************************************)
(* C7.  When eval_rpn applies Div (Mod) to a right operand whose value is  *)
(* zero, however written or computed, eval ends with "Division by zero"    *)
(* ("Modulo by zero"); with any other right operand the step raises no     *)
(* error, whatever the left operand.                                       *)
(***************************************************************************)
Zero == BigDecimal(0, 0)

C7_DivModByZero ==
    [][ (pc = "eval" /\ ridx < Len(output)
           /\ output[ridx + 1].type = "Op" /\ output[ridx + 1].op \in {"Div", "Mod"}
           /\ Len(vstack) >= 2 /\ Last(vstack).known)
        => IF NumEq(Last(vstack), Zero)
           THEN /\ pc' = "done"
                /\ result' = Err(IF output[ridx + 1].op = "Div"
                                 THEN "Division by zero" ELSE "Modulo by zero")
           ELSE /\ pc' = "eval"
                /\ result' = result
                /\ Len(vstack') = Len(vstack) - 1
      ]_vars

\* 2 / (2 - 2): the zero divisor is the value of a subexpression
C7_Witness ==
    /\ pc = "done"
    /\ input = <<"2", "/", "(", "2", "-", "2", ")">>
    /\ output[ridx] = Op("Div")
    /\ result = Err("Division by zero")

(***************************************************************************)
(* C8.  When eval_rpn applies Pow: an exponent whose value is no integer   *)
(* ends eval with the non-integer-exponent error; an integer exponent      *)
(* outside -2^63 .. 2^63 - 1 ends it with the out-of-range error; every    *)
(* other exponent (2.0, 2 + 2, a negative integer) raises no error and     *)
(* the base is raised to it.                                               *)
(***************************************************************************)
IntegerValued(v) == Canon(v).scale <= 0

RECURSIVE NumDigits(_)
NumDigits(n) == IF n < 10 THEN 1 ELSE 1 + NumDigits(n \div 10)

\* an integer-valued m * 10^k (m with d <= 7 digits, no trailing zero) lies in
\* the i64 range iff d + k < 19, or d + k = 19 and the first seven digits of the
\* value are at most 9223372, those of 2^63 - 1 = 9223372036854775807
WithinI64(v) ==
    LET m == Abs(Canon(v).int_val)
        k == -Canon(v).scale
        d == NumDigits(m)
    IN  \/ m = 0
        \/ d + k < 19
        \/ d + k = 19 /\ m * Pow10(7 - d) <= 9223372

\* l^n written out for the exponents -2 .. 3
PowerWrittenOut(l, n) ==
    CASE n = 0 -> BigDecimal(1, 0)
      [] n = 1 -> l
      [] n = 2 -> Mul(l, l)
      [] n = 3 -> Mul(l, Mul(l, l))
      [] n = -1 -> Div(BigDecimal(1, 0), l)
      [] n = -2 -> Div(BigDecimal(1, 0), Mul(l, l))
      [] OTHER -> Opaque

\* v is l raised to the integer exponent r, where the model can write it out
IsPower(v, l, r) ==
    LET c == Canon(r)
        n == IF c.scale = 0 THEN c.int_val ELSE 99
        p == IF l.known /\ n \in -2 .. 3 THEN PowerWrittenOut(l, n) ELSE Opaque
    IN  p.known => NumEq(v, p)

C8_PowerExponent ==
    [][ (pc = "eval" /\ ridx < Len(output)
           /\ output[ridx + 1] = Op("Pow")
           /\ Len(vstack) >= 2 /\ Last(vstack).known)
        => IF ~IntegerValued(Last(vstack))
           THEN /\ pc' = "done"
                /\ result' = Err("Exponent must be an integer for power operation")
           ELSE IF ~WithinI64(Last(vstack))
           THEN /\ pc' = "done"
                /\ result' = Err("Exponent is out of range for power operation")
           ELSE /\ pc' = "eval"
                /\ result' = result
                /\ Len(vstack') = Len(vstack) - 1
                /\ IsPower(Last(vstack'), vstack[Len(vstack) - 1], Last(vstack))
      ]_vars

\* 2 ^ 1e19: the exponent is an integer, and too large for an i64
C8_Witness ==
    /\ pc = "done"
    /\ input = <<"2", "^", "1", "e", "1", "9">>
    /\ result = Err("Exponent is out of range for power operation")

(***************************************************************************)
(* C9.  eval_rpn returns a value iff every operator finds its operands     *)
(* (one for UnarySub, two for a binary operator), no operator raises an    *)
(* arithmetic error and exactly one value is left; no value or several     *)
(* values left is "Invalid RPN expression" (so for the empty and the       *)
(* blank input), and the first operator that finds too few operands is     *)
(* "Not enough operands for operator".                                     *)
(***************************************************************************)
ArithmeticErrors ==
    {"Division by zero", "Modulo by zero",
     "Exponent must be an integer for power operation",
     "Exponent is out of range for power operation"}

\* index of the first operator of out[i ..] that finds too few of the depth
\* values on the stack, or 0
RECURSIVE FirstUnderflow(_, _, _)
FirstUnderflow(out, i, depth) ==
    IF i > Len(out) THEN 0
    ELSE IF out[i].type # "Op" THEN FirstUnderflow(out, i + 1, depth + 1)
    ELSE IF out[i].op = "UnarySub"
         THEN IF depth < 1 THEN i ELSE FirstUnderflow(out, i + 1, depth)
    ELSE IF depth < 2 THEN i ELSE FirstUnderflow(out, i + 1, depth - 1)

\* operands pushed minus values consumed by the binary operators
FinalDepth(out) ==
    Cardinality({i \in DOMAIN out : out[i].type # "Op"})
    - Cardinality({i \in DOMAIN out : out[i].type = "Op" /\ out[i].op # "UnarySub"})

C9_ValueIffWellFormed ==
    (pc = "done" /\ Parsed /\ result.kind # "Untracked")
    => LET u == FirstUnderflow(output, 1, 0)
           arith == result.err \in ArithmeticErrors
       IN  /\ (result.err = "Not enough operands for operator") = (u # 0 /\ ridx = u)
           /\ u # 0 => ridx <= u
           /\ (u # 0 /\ ~arith) => result = Err("Not enough operands for operator")
           /\ (result.kind = "Ok") = (u = 0 /\ ~arith /\ FinalDepth(output) = 1)
           /\ (result = Err("Invalid RPN expression"))
                 = (u = 0 /\ ~arith /\ FinalDepth(output) # 1)
           /\ tokens = <<>> => result = Err("Invalid RPN expression")
           /\ result.kind \in {"Ok", "Err"}

\* two values are left after the last token
C9_Witness ==
    /\ pc = "done"
    /\ Parsed
    /\ Len(vstack) = 2
    /\ result = Err("Invalid RPN expression")

(***************************************************************************)
(* C10.  eval runs tokenize, shunting_yard and eval_rpn in this order,     *)
(* each over its whole input, and reports the first failure only: a        *)
(* lexical error anywhere in the input wins over every parse and           *)
(* arithmetic error, a parse error anywhere in the tokens wins over every  *)
(* arithmetic error, and eval_rpn reports the error of the leftmost        *)
(* failing token of the postfix sequence.                                  *)
(***************************************************************************)
\* eval_rpn as one left-to-right pass: [err, at], the first error and its index
RECURSIVE RpnFirstError(_, _, _)
RpnFirstError(out, i, stk) ==
    IF i > Len(out) THEN [err |-> "", at |-> Len(out)]
    ELSE LET r == EvalToken(out[i], stk)
         IN  IF r.err # "" THEN [err |-> r.err, at |-> i]
             ELSE RpnFirstError(out, i + 1, r.stack)

\* a character no token starts with or contains
HasUnexpectedCharacter(inp) == \E i \in DOMAIN inp : inp[i] = "$"

HasParseError(toks) ==
    Unbalanced(toks) \/ \E i \in DOMAIN toks : MisplacedOperatorAt(toks, i)

FirstFailureOnly ==
    pc = "done" =>
       /\ HasUnexpectedCharacter(input) => result.err \in LexErrors
       /\ (Tokenized /\ HasParseError(tokens)) => result.err \in ParseErrors
       /\ Parsed =>
             LET f == RpnFirstError(output, 1, <<>>)
             IN  IF f.err # "" THEN result = Failed(f.err) /\ ridx = f.at
                 ELSE result.err \notin OperatorErrors /\ ridx = Len(output)

C10_StagesInOrder ==
    /\ pc = "tokenize" => (idx = 0 /\ output = <<>> /\ ridx = 0 /\ vstack = <<>>)
    /\ pc = "parse" => (pos = Len(input) /\ ridx = 0 /\ vstack = <<>>)
    /\ pc = "eval" => (pos = Len(input) /\ idx = Len(tokens))
    /\ pc # "done" => result = NoResult
    /\ pc = "done" =>
          /\ result # NoResult
          /\ result.err \in LexErrors => (idx = 0 /\ output = <<>> /\ ridx = 0)
          /\ result.err \in ParseErrors => (pos = Len(input) /\ ridx = 0 /\ vstack = <<>>)
          /\ result.err \notin (LexErrors \cup ParseErrors)
                => (pos = Len(input) /\ idx = Len(tokens))
          /\ result.kind = "Ok" => ridx = Len(output)
    /\ FirstFailureOnly

\* 2 / 0 $: the lexical error behind the division by zero is the one reported
C10_Witness ==
    /\ pc = "done"
    /\ input = <<"2", "/", "0", "$">>
    /\ result = Err("Unexpected character")

(***************************************************************************)
(* C11.  The numeric run one iteration of tokenize consumes starts with a  *)
(* digit, holds at most one '.' and at most one e/E, and holds a '+' or    *)
(* '-' only directly behind the exponent marker; whatever follows the run  *)
(* is left for the next iteration.                                         *)
(***************************************************************************)
CountIn(s, S) == Cardinality({i \in DOMAIN s : s[i] \in S})

\* the characters the iteration starting at pos + 1 has consumed
ConsumedRun == SubSeq(input, pos + 1, pos')

SignsFollowExponent(run) ==
    \A i \in DOMAIN run :
        run[i] \in {"+", "-"} => (i > 1 /\ is_exp_marker(run[i - 1]))

C11_NumericRun ==
    [][ (pc = "tokenize" /\ pos < Len(input) /\ is_ascii_digit(input[pos + 1]))
        => /\ CountIn(ConsumedRun, {"."}) <= 1
           /\ CountIn(ConsumedRun, {"e", "E"}) <= 1
           /\ SignsFollowExponent(ConsumedRun)
      ]_vars

(***************************************************************************)
(* C12.  An identifier run is the longest alphanumeric run behind a        *)
(* letter; it becomes Ident(c) iff it spells the name of c in any mix of   *)
(* upper and lower case, and otherwise ends tokenize with "Unknown math    *)
(* constant".  The eleven names are pairwise distinct and the lookup of    *)
(* the name of c is c.                                                     *)
(***************************************************************************)
\* text spells name, letter case ignored (name is in lower case)
Spells(text, name) ==
    /\ Len(text) = Len(name)
    /\ \A i \in DOMAIN name :
          \/ text[i] = name[i]
          \/ /\ name[i] \in Range(LowerChars)
             /\ text[i] = UpperChars[IndexOf(LowerChars, name[i])]

NamesDistinct ==
    \A c, d \in MathConst : as_str(c) = as_str(d) => c = d

NamesRoundTrip ==
    \A c \in MathConst : MathConstTryFrom(as_str(c)) = c

C12_IdentifierResolution ==
    [][ (pc = "tokenize" /\ pos < Len(input) /\ is_ascii_alphabetic(input[pos + 1]))
        => LET run == SubSeq(input, pos + 1, pos')
           IN  /\ NamesDistinct
               /\ NamesRoundTrip
               /\ pos' > pos
               /\ \A i \in DOMAIN run : is_alphanumeric(run[i])
               /\ pos' < Len(input) => ~is_alphanumeric(input[pos' + 1])
               /\ \A c \in MathConst :
                     Spells(run, as_str(c))
                     <=> (pc' = "tokenize" /\ tokens' = Append(tokens, Ident(c)))
               /\ (\A c \in MathConst : ~Spells(run, as_str(c)))
                     <=> (pc' = "done" /\ result' = Err("Unknown math constant")
                          /\ tokens' = tokens)
      ]_vars

\* "Pi" in mixed case has resolved to the constant Pi
C12_Witness ==
    /\ input = <<"P", "i">>
    /\ tokens = <<Ident("Pi")>>
    /\ pc # "tokenize"

(***************************************************************************)
(* C13.  With any number of calls of eval in progress and any interleaving *)
(* of their steps, every call that has returned has returned eval of its   *)
(* own input, the outcome of that input run alone; so two calls on the     *)
(* same input return the same outcome, whatever ran before or between.     *)
(***************************************************************************)
Calls == {Locals} \cup Range(parked)

C13_CallsIndependent ==
    /\ \A call \in Calls :
          IF call.pc = "done" THEN call.result = eval(call.input)
          ELSE call.result = NoResult
    /\ \A a, b \in Calls :
          (a.input = b.input /\ a.pc = "done" /\ b.pc = "done")
          => a.result = b.result

\* the call on "-2" has returned -2 while a call on "(2)-2" is in the middle
\* of shunting_yard, behind its ')'
C13_Witness ==
    /\ parked # <<>>
    /\ input = <<"-", "2">>
    /\ pc = "done"
    /\ result.kind = "Ok"
    /\ NumEq(result.value, BigDecimal(-2, 0))
    /\ parked[1].input = <<"(", "2", ")", "-", "2">>
    /\ parked[1].pc = "parse"
    /\ parked[1].idx = 3
    /\ ~parked[1].expect_operand

(***************************************************************************)
(* C14.  For every token sequence generated by the grammar E ::= Number |  *)
(* Identifier | '-' E | E binop E | '(' E ')' shunting_yard succeeds and   *)
(* eval_rpn fails neither with "Not enough operands for operator" nor      *)
(* with "Invalid RPN expression".                                          *)
(***************************************************************************)
\* a recogniser of the grammar, which generates the same token sequences as
\* Expr ::= Unary (binop Unary)*, Unary ::= '-' Unary | Primary,
\* Primary ::= Number | Identifier | '(' Expr ')'.
\* Each operator is the index behind the longest phrase that starts at i, or 0.
RECURSIVE GrammarExpr(_, _), GrammarTail(_, _), GrammarUnary(_, _)
GrammarUnary(toks, i) ==
    IF i > Len(toks) THEN 0
    ELSE IF IsOperand(toks[i]) THEN i + 1
    ELSE IF toks[i].type = "Op"
         THEN IF toks[i].op = "Sub" THEN GrammarUnary(toks, i + 1) ELSE 0
    ELSE IF toks[i].type = "LParenthesis"
         THEN LET j == GrammarExpr(toks, i + 1)
              IN  IF j # 0 /\ j <= Len(toks) /\ toks[j].type = "RParenthesis"
                  THEN j + 1 ELSE 0
    ELSE 0

GrammarTail(toks, i) ==
    IF i <= Len(toks) /\ toks[i].type = "Op"
    THEN LET j == GrammarUnary(toks, i + 1)
         IN  IF j = 0 THEN 0 ELSE GrammarTail(toks, j)
    ELSE i

GrammarExpr(toks, i) ==
    LET j == GrammarUnary(toks, i)
    IN  IF j = 0 THEN 0 ELSE GrammarTail(toks, j)

GeneratedByGrammar(toks) == GrammarExpr(toks, 1) = Len(toks) + 1

C14_GrammarWellFormed ==
    (pc = "done" /\ Tokenized /\ GeneratedByGrammar(tokens))
    => /\ result.err \notin ParseErrors
       /\ result.err \notin {"Not enough operands for operator",
                             "Invalid RPN expression"}

(***************************************************************************)
(* C15.  A token sequence with two adjacent operands, with an operand next *)
(* to a parenthesised group, or with an empty pair of parentheses never    *)
(* makes eval return a value: the call ends in an error.                   *)
(***************************************************************************)
AdjacentOperands(toks) ==
    \E i \in 1 .. Len(toks) - 1 : IsOperand(toks[i]) /\ IsOperand(toks[i + 1])

OperandNextToGroup(toks) ==
    \E i \in 1 .. Len(toks) - 1 :
        \/ IsOperand(toks[i]) /\ toks[i + 1].type = "LParenthesis"
        \/ toks[i].type = "RParenthesis" /\ IsOperand(toks[i + 1])

EmptyParentheses(toks) ==
    \E i \in 1 .. Len(toks) - 1 :
        toks[i].type = "LParenthesis" /\ toks[i + 1].type = "RParenthesis"

C15_JuxtapositionFails ==
    (pc = "done" /\ Tokenized
       /\ (AdjacentOperands(tokens) \/ OperandNextToGroup(tokens)
             \/ EmptyParentheses(tokens)))
    => result.kind = "Err"

(***************************************************************************)
(* C16.  Whenever shunting_yard succeeds, its output holds no parenthesis  *)
(* token, holds the Number and Ident tokens of the input in their order,   *)
(* and holds one operator token for each operator token of the input (a    *)
(* '-' as Sub or UnarySub), so its length is the number of tokens minus    *)
(* the parentheses; eval_rpn never fails with "Parenthesis encountered in  *)
(* RPN stream".                                                            *)
(***************************************************************************)
IsParenToken(t) == t.type \in {"LParenthesis", "RParenthesis"}

\* '-' read as a prefix operator is still the '-' of the input
AsWritten(op) == IF op = "UnarySub" THEN "Sub" ELSE op

CountOp(toks, op) ==
    Cardinality({i \in DOMAIN toks : toks[i].type = "Op" /\ AsWritten(toks[i].op) = op})

\* shunting_yard has returned Ok(output) and eval_rpn has not yet begun
ParserReturned == pc = "eval" /\ ridx = 0

C16_OutputIsPermutation ==
    /\ ParserReturned
       => /\ \A i \in DOMAIN output : ~IsParenToken(output[i])
          /\ SelectSeq(output, IsOperand) = SelectSeq(tokens, IsOperand)
          /\ \A op \in Operator : CountOp(output, op) = CountOp(tokens, op)
          /\ Len(output) = Len(tokens) - Len(SelectSeq(tokens, IsParenToken))
    /\ result.err # "Parenthesis encountered in RPN stream"

\* -(-3 * 2): seven tokens, two of them parentheses, five in the output
C16_Witness ==
    /\ input = <<"-", "(", "-", "3", " ", "*", " ", "2", ")">>
    /\ pc = "eval"
    /\ Len(tokens) = 7
    /\ Len(output) = 5
    /\ output[5] = Op("UnarySub")

(***************************************************************************)
(* C17.  The stack of shunting_yard holds Op and LParenthesis tokens only, *)
(* never a RParenthesis, Number or Ident.  As first stated: once the last  *)
(* token is processed without error the stack holds no parenthesis, and    *)
(* the final drain never fails.  As the code has it: the stack then holds  *)
(* one LParenthesis for every '(' left unclosed, and the drain fails with  *)
(* "Mismatched parentheses" exactly when there is one.                     *)
(***************************************************************************)
StackHoldsOpsAndLeftParens ==
    \A i \in DOMAIN stack : stack[i].type \in {"Op", "LParenthesis"}

\* the last token has been processed without error; the drain is next
BeforeDrain == pc = "parse" /\ idx = Len(tokens)

LeftParensOn(stk) == Cardinality({i \in DOMAIN stk : stk[i].type = "LParenthesis"})

C17_Original ==
    /\ []StackHoldsOpsAndLeftParens
    /\ [][ BeforeDrain
           => /\ LeftParensOn(stack) = 0
              /\ pc' = "eval"
         ]_vars

C17_StackDiscipline ==
    /\ []StackHoldsOpsAndLeftParens
    /\ [][ BeforeDrain
           => /\ LeftParensOn(stack)
                   = CountType(tokens, "LParenthesis", Len(tokens))
                     - CountType(tokens, "RParenthesis", Len(tokens))
              /\ IF LeftParensOn(stack) = 0
                 THEN pc' = "eval" /\ stack' = <<>> /\ result' = NoResult
                 ELSE pc' = "done" /\ result' = Err("Mismatched parentheses")
         ]_vars

\* (3 + 4: the drain has met the '(' that was never closed
C17_Witness ==
    /\ input = <<"(", "3", " ", "+", " ", "4">>
    /\ pc = "done"
    /\ idx = Len(tokens)
    /\ output = <<Number(BigDecimal(3, 0)), Number(BigDecimal(4, 0)), Op("Add")>>
    /\ result = Err("Mismatched parentheses")

(***************************************************************************)
(* C18.  Every call of eval ends with a value or an error.  Each           *)
(* iteration of the tokenizer's loop consumes at least one character, the  *)
(* parser and the evaluator advance by exactly one token per iteration,    *)
(* each iteration of a pop loop moves or removes one stack entry, the      *)
(* final drain leaves the stack empty when it succeeds, and a bounded      *)
(* measure of the work left falls with every step.                         *)
(***************************************************************************)
\* an upper bound of the steps left
Variant ==
    CASE pc = "tokenize" -> (Len(input) - pos) + 2 * Len(input) + 3
      [] pc = "parse" -> (Len(tokens) - idx) + Len(input) + 2
      [] pc = "eval" -> (Len(output) - ridx) + 1
      [] OTHER -> 0

\* entries the step has moved from the stack to the output
Moved == Len(output') - Len(output)

Progress ==
    /\ Variant' < Variant
    /\ (pc = "tokenize" /\ pos < Len(input))
         => (pos' > pos /\ pos' <= Len(input))
    /\ (pc = "parse" /\ idx < Len(tokens))
         => /\ idx' = idx + 1
            /\ CASE tokens[idx + 1].type \in {"Number", "Ident"} ->
                      stack' = stack /\ Moved = 1
                 [] tokens[idx + 1].type = "Op" ->
                      \/ pc' = "done"
                      \/ /\ Moved \in 0 .. Len(stack)
                         /\ Len(stack') = Len(stack) - Moved + 1
                 [] tokens[idx + 1].type = "LParenthesis" ->
                      Len(stack') = Len(stack) + 1 /\ Moved = 0
                 [] OTHER ->
                      /\ Moved \in 0 .. Len(stack)
                      /\ IF pc' = "done" THEN stack' = <<>>
                         ELSE Len(stack') = Len(stack) - Moved - 1
    /\ (pc = "parse" /\ idx = Len(tokens))
         => IF pc' = "eval" THEN stack' = <<>> /\ Moved = Len(stack)
            ELSE Len(stack') < Len(stack)
    /\ (pc = "eval" /\ ridx < Len(output)) => ridx' = ridx + 1
    /\ (pc = "eval" /\ ridx = Len(output)) => pc' = "done"

DefensiveErrors ==
    {"Unary operator cannot be applied in binary context",
     "Unsupported unary operator"}

NoPanicStep ==
    /\ (pc = "tokenize" /\ tokens' # tokens)
         => CASE Last(tokens').type = "Op" ->
                   /\ is_op(input[pos + 1])
                   /\ Last(tokens').op \in Operator \ {"UnarySub"}
              [] IsParenToken(Last(tokens')) -> is_paren(input[pos + 1])
              [] OTHER -> IsOperand(Last(tokens'))
    /\ (pc = "eval" /\ ridx < Len(output) /\ output[ridx + 1].type = "Op")
         => output[ridx + 1].op \in Operator
    /\ (pc = "eval" /\ result'.kind = "Ok")
         => (Len(vstack) = 1 /\ result'.value = vstack[1])
    /\ result'.kind # "Panic"
    /\ result'.err \notin DefensiveErrors

C19_NoPanic == [][NoPanicStep]_vars

\* -5 * 4 has gone through both conversions' callers, apply_unary_operator,
\* apply_operator and the final pop
C19_Witness ==
    /\ input = <<"-", "5", " ", "*", " ", "4">>
    /\ pc = "done"
    /\ output = <<Number(BigDecimal(5, 0)), Op("UnarySub"),
                  Number(BigDecimal(4, 0)), Op("Mul")>>
    /\ result.kind = "Ok"
    /\ NumEq(result.value, BigDecimal(-20, 0))

====
